---- MODULE Spec2Model ----
(***************************************************************************)
(* Library management system (src/learning_OOPS.py): Book, Member with its *)
(* Student and Faculty variants, Library with borrow / return / remove /   *)
(* merge, and the objects they share by reference.                         *)
(*                                                                         *)
(* The strings (Book.title, Book.author, Person.name, Library.name) are     *)
(* only ever printed: no operation reads them, and they are left out.      *)
(*                                                                         *)
(* Objects live in a heap.  A Book is a reference 1..Len(book_id); a       *)
(* Member is a reference 1..Len(member_id); a Library is an index of       *)
(* libraries.  Lists hold references, so that two libraries (a source and  *)
(* a merged one) can hold the same Book or Member instance.                *)
(***************************************************************************)
EXTENDS Integers, Sequences, FiniteSets, TLC

\* ------------------------------------------------------------------ bounds
MaxBooks == 2        \* Book objects ever constructed
MaxMembers == 2      \* Member objects ever constructed
MaxLibs == 3         \* Library objects ever constructed (two at start)
NumBookIds == 2      \* book ids are drawn from 1..NumBookIds
NumMemberIds == 2    \* member ids are drawn from 1..NumMemberIds

NumCapBooks == 14    \* SpecCap: books added to the one catalog
NumMergeBooks == 4   \* SpecMerge: Book objects ever constructed
NumMergeIds == 3     \* SpecMerge: book ids are drawn from 1..NumMergeIds

NumCliLibs == 4      \* SpecCli: Library objects in the session (two seeded)
NumCliBooks == 5     \* SpecCli: Book objects ever constructed (four seeded)
NumCliMembers == 5   \* SpecCli: Member objects ever constructed (four seeded)

BookIds == 1..NumBookIds
MemberIds == 1..NumMemberIds

\* ------------------------------------------------------- program constants
StudentMember_MAX_BORROW == 3
FacultyMember_MAX_BORROW == 10

Roles == {"Student", "Faculty"}

\* The registrations offered: as in seed_demo_data (Alice 1 and Charlie 3 are
\* students, Dr. Bob 2 and Prof. Dana 4 are faculty), an odd id registers a
\* StudentMember and an even id a FacultyMember.
RoleOfId(id) == IF id % 2 = 1 THEN "Student" ELSE "Faculty"

\* Python's None for an Optional[Book] / Optional[Member]
None == 0

VARIABLES
    book_id,         \* Book.__book_id      : book ref -> id
    is_available,    \* Book.is_available   : book ref -> BOOLEAN
    member_id,       \* Member.__member_id  : member ref -> id
    role,            \* the member's class  : member ref -> Roles
    borrowed_books,  \* Member.borrowed_books : member ref -> Seq(book ref)
    libraries,       \* Library objects: [books, members]
    active_idx,      \* run_cli: the index (from 0) of the active library
    last,            \* history: the last call, what it returned and what it printed
    removed          \* history: the books a successful remove_book has removed

vars == <<book_id, is_available, member_id, role, borrowed_books, libraries, active_idx,
          last, removed>>

\* ----------------------------------------------------------------- helpers
\* list.remove(x): drops the first element equal to x (objects compare by identity)
RECURSIVE list_remove(_, _)
list_remove(s, x) ==
    IF s = <<>> THEN <<>>
    ELSE IF Head(s) = x THEN Tail(s)
    ELSE <<Head(s)>> \o list_remove(Tail(s), x)

\* The heap fields that borrow and return write.
Heap == [is_available |-> is_available, borrowed_books |-> borrowed_books]

\* ------------------------------------------------------------------ Member
\* Mutant: the base class refuses at the faculty cap.
Member_borrow_book_capped(h, m, b) ==
    IF h.is_available[b] /\ Len(h.borrowed_books[m]) < FacultyMember_MAX_BORROW
    THEN [ret |-> TRUE, msg |-> "borrowed",
          h   |-> [is_available   |-> [h.is_available EXCEPT ![b] = FALSE],
                   borrowed_books |-> [h.borrowed_books EXCEPT ![m] = Append(@, b)]]]
    ELSE [ret |-> FALSE, msg |-> "not available", h |-> h]

\* Member.borrow_book (base class): available -> take it; else refuse.
Member_borrow_book(h, m, b) ==
    IF h.is_available[b]
    THEN [ret |-> TRUE, msg |-> "borrowed",
          h   |-> [is_available   |-> [h.is_available EXCEPT ![b] = FALSE],
                   borrowed_books |-> [h.borrowed_books EXCEPT ![m] = Append(@, b)]]]
    ELSE [ret |-> FALSE, msg |-> "not available", h |-> h]

\* Mutant: the availability test is lost, so a book that is out is lent again.
StudentMember_borrow_book_unchecked(h, m, b) ==
    IF Len(h.borrowed_books[m]) >= StudentMember_MAX_BORROW
    THEN [ret |-> FALSE, msg |-> "reached limit", h |-> h]
    ELSE [ret |-> TRUE, msg |-> "borrowed",
          h   |-> [is_available   |-> [h.is_available EXCEPT ![b] = FALSE],
                   borrowed_books |-> [h.borrowed_books EXCEPT ![m] = Append(@, b)]]]

\* StudentMember.borrow_book: the cap first, then availability.
StudentMember_borrow_book(h, m, b) ==
    IF Len(h.borrowed_books[m]) >= StudentMember_MAX_BORROW
    THEN [ret |-> FALSE, msg |-> "reached limit", h |-> h]
    ELSE IF ~h.is_available[b]
    THEN [ret |-> FALSE, msg |-> "not available", h |-> h]
    ELSE [ret |-> TRUE, msg |-> "borrowed",
          h   |-> [is_available   |-> [h.is_available EXCEPT ![b] = FALSE],
                   borrowed_books |-> [h.borrowed_books EXCEPT ![m] = Append(@, b)]]]

\* Mutant: the cap is tested with > instead of >=.
FacultyMember_borrow_book_off_by_one(h, m, b) ==
    IF Len(h.borrowed_books[m]) > FacultyMember_MAX_BORROW
    THEN [ret |-> FALSE, msg |-> "reached limit", h |-> h]
    ELSE IF ~h.is_available[b]
    THEN [ret |-> FALSE, msg |-> "not available", h |-> h]
    ELSE [ret |-> TRUE, msg |-> "borrowed",
          h   |-> [is_available   |-> [h.is_available EXCEPT ![b] = FALSE],
                   borrowed_books |-> [h.borrowed_books EXCEPT ![m] = Append(@, b)]]]

\* Mutant: the book is marked as out before the cap is tested.
FacultyMember_borrow_book_marks_first(h, m, b) ==
    IF Len(h.borrowed_books[m]) >= FacultyMember_MAX_BORROW
    THEN [ret |-> FALSE, msg |-> "reached limit",
          h   |-> [h EXCEPT !.is_available = [h.is_available EXCEPT ![b] = FALSE]]]
    ELSE IF ~h.is_available[b]
    THEN [ret |-> FALSE, msg |-> "not available", h |-> h]
    ELSE [ret |-> TRUE, msg |-> "borrowed",
          h   |-> [is_available   |-> [h.is_available EXCEPT ![b] = FALSE],
                   borrowed_books |-> [h.borrowed_books EXCEPT ![m] = Append(@, b)]]]

\* FacultyMember.borrow_book: the cap first, then availability.
FacultyMember_borrow_book(h, m, b) ==
    IF Len(h.borrowed_books[m]) >= FacultyMember_MAX_BORROW
    THEN [ret |-> FALSE, msg |-> "reached limit", h |-> h]
    ELSE IF ~h.is_available[b]
    THEN [ret |-> FALSE, msg |-> "not available", h |-> h]
    ELSE [ret |-> TRUE, msg |-> "borrowed",
          h   |-> [is_available   |-> [h.is_available EXCEPT ![b] = FALSE],
                   borrowed_books |-> [h.borrowed_books EXCEPT ![m] = Append(@, b)]]]

\* member.borrow_book(book): dispatch on the member's class.
borrow_book(h, m, b) ==
    CASE role[m] = "Student" -> StudentMember_borrow_book(h, m, b)
      [] role[m] = "Faculty" -> FacultyMember_borrow_book(h, m, b)
      [] OTHER               -> Member_borrow_book(h, m, b)

\* Mutant: the id comparison is lost, so the first borrowed book always matches.
first_borrowed_any(bs, id) == IF bs = <<>> THEN None ELSE Head(bs)

\* The loop of Member.return_book over the rest of borrowed_books: the first
\* book with the id, or None.
RECURSIVE first_borrowed_with_id(_, _)
first_borrowed_with_id(bs, id) ==
    IF bs = <<>> THEN None
    ELSE IF book_id[Head(bs)] = id THEN Head(bs)
    ELSE first_borrowed_with_id(Tail(bs), id)

\* Mutant: a member that does not hold the book still marks every book with
\* that id as available.
Member_return_book_frees_anyway(h, m, id) ==
    LET b == first_borrowed_with_id(h.borrowed_books[m], id) IN
    IF b # None
    THEN [ret |-> TRUE, msg |-> "returned",
          h   |-> [is_available   |-> [h.is_available EXCEPT ![b] = TRUE],
                   borrowed_books |-> [h.borrowed_books EXCEPT ![m] = list_remove(@, b)]]]
    ELSE [ret |-> FALSE, msg |-> "does not have",
          h   |-> [h EXCEPT !.is_available =
                      [x \in DOMAIN h.is_available |->
                          IF book_id[x] = id THEN TRUE ELSE h.is_available[x]]]]

\* Member.return_book(book_id)
Member_return_book(h, m, id) ==
    LET b == first_borrowed_with_id(h.borrowed_books[m], id) IN
    IF b # None
    THEN [ret |-> TRUE, msg |-> "returned",
          h   |-> [is_available   |-> [h.is_available EXCEPT ![b] = TRUE],
                   borrowed_books |-> [h.borrowed_books EXCEPT ![m] = list_remove(@, b)]]]
    ELSE [ret |-> FALSE, msg |-> "does not have", h |-> h]

\* ----------------------------------------------------------------- Library
\* Mutant: the loop does not stop at the first match, so the last book with
\* the id is the one returned.
RECURSIVE find_book_last(_, _)
find_book_last(books, id) ==
    IF books = <<>> THEN None
    ELSE LET later == find_book_last(Tail(books), id) IN
         IF later # None THEN later
         ELSE IF book_id[Head(books)] = id THEN Head(books)
         ELSE None

\* Library.find_book: the first book of the list with the id, or None.
RECURSIVE find_book(_, _)
find_book(books, id) ==
    IF books = <<>> THEN None
    ELSE IF book_id[Head(books)] = id THEN Head(books)
    ELSE find_book(Tail(books), id)

\* Library.get_member_by_id: the first member of the list with the id, or None.
RECURSIVE get_member_by_id(_, _)
get_member_by_id(members, id) ==
    IF members = <<>> THEN None
    ELSE IF member_id[Head(members)] = id THEN Head(members)
    ELSE get_member_by_id(Tail(members), id)

\* Mutant: the availability test of the loop is lost.
first_removable_ignores_availability(books, id) == find_book(books, id)

\* The loop of Library.remove_book: the first book with the id that is
\* available, or None.
RECURSIVE first_removable(_, _)
first_removable(books, id) ==
    IF books = <<>> THEN None
    ELSE IF book_id[Head(books)] = id /\ is_available[Head(books)] THEN Head(books)
    ELSE first_removable(Tail(books), id)

\* Mutant: the first book with the id is removed, borrowed or not.
Library_remove_book_unchecked(books, id) ==
    LET b == find_book(books, id) IN
    IF b # None
    THEN [ret |-> TRUE, msg |-> "removed", books |-> list_remove(books, b)]
    ELSE [ret |-> FALSE, msg |-> "cannot remove", books |-> books]

\* Library.remove_book(book_id) on a books list: the value returned and the list left.
Library_remove_book(books, id) ==
    LET b == first_removable(books, id) IN
    IF b # None
    THEN [ret |-> TRUE, msg |-> "removed", books |-> list_remove(books, b)]
    ELSE [ret |-> FALSE, msg |-> "cannot remove", books |-> books]

\* Mutant: an id that resolves to no book falls back to the first book of the
\* catalog.
Library_borrow_first_book(lib, h, mid, bid) ==
    LET member == get_member_by_id(lib.members, mid)
        found  == find_book(lib.books, bid)
        book   == IF found = None /\ lib.books # <<>> THEN Head(lib.books) ELSE found
    IN  IF member = None THEN [ret |-> FALSE, msg |-> "no member", h |-> h]
        ELSE IF book = None THEN [ret |-> FALSE, msg |-> "no book", h |-> h]
        ELSE borrow_book(h, member, book)

\* Library.borrow(member_id, book_id) on library lib and heap h.
Library_borrow(lib, h, mid, bid) ==
    LET member == get_member_by_id(lib.members, mid)
        book   == find_book(lib.books, bid)
    IN  IF member = None THEN [ret |-> FALSE, msg |-> "no member", h |-> h]
        ELSE IF book = None THEN [ret |-> FALSE, msg |-> "no book", h |-> h]
        ELSE borrow_book(h, member, book)

\* Library.return_book(member_id, book_id) on library lib and heap h.
Library_return_book(lib, h, mid, bid) ==
    LET member == get_member_by_id(lib.members, mid) IN
    IF member = None THEN [ret |-> FALSE, msg |-> "no member", h |-> h]
    ELSE Member_return_book(h, member, bid)

\* Mutant: seen is never filled, so nothing is dropped.
merge_loop_never_seen(items, ids, merged, seen) == merged \o items

\* The two loops of Library.__add__: walk items, keep an item whose id (ids[item])
\* is not in seen, and add its id to seen.
RECURSIVE merge_loop(_, _, _, _)
merge_loop(items, ids, merged, seen) ==
    IF items = <<>> THEN merged
    ELSE IF ids[Head(items)] \notin seen
    THEN merge_loop(Tail(items), ids, Append(merged, Head(items)), seen \cup {ids[Head(items)]})
    ELSE merge_loop(Tail(items), ids, merged, seen)

\* Library.__add__(self, other): the merged library.
Library__add__(self, other) ==
    [books   |-> merge_loop(self.books \o other.books, book_id, <<>>, {}),
     members |-> merge_loop(self.members \o other.members, member_id, <<>>, {})]

\* Library.__init__(name)
Library__init__ == [books |-> <<>>, members |-> <<>>]

\* -------------------------------------------------------------------- state
NoCall == [op |-> "none", ret |-> FALSE, msg |-> ""]

Init ==
    /\ book_id = <<>>
    /\ is_available = <<>>
    /\ member_id = <<>>
    /\ role = <<>>
    /\ borrowed_books = <<>>
    /\ libraries = <<Library__init__, Library__init__>>
    /\ active_idx = 0
    /\ last = NoCall
    /\ removed = {}

Libs == 1..Len(libraries)

\* The ids a caller gives a new book, out of 1..n.  Book ids are only ever
\* compared for equality (lines 48, 142, 151, 200), so new ids are numbered in
\* the order of their first use: an id in use, or the lowest one not in use.
NewBookIds(n) ==
    {i \in 1..n : i <= Cardinality({book_id[b] : b \in 1..Len(book_id)}) + 1}

\* lib.add_book(Book(title, author, id)): a new Book, available, appended.
AddBook(l, id) ==
    /\ book_id' = Append(book_id, id)
    /\ is_available' = Append(is_available, TRUE)
    /\ libraries' = [libraries EXCEPT ![l].books = Append(@, Len(book_id) + 1)]
    /\ last' = [op |-> "add_book", ret |-> TRUE, msg |-> "added"]
    /\ UNCHANGED <<member_id, role, borrowed_books, active_idx, removed>>

\* lib.add_member(StudentMember(name, id)) or FacultyMember: a new Member appended.
AddMember(l, r, id) ==
    /\ member_id' = Append(member_id, id)
    /\ role' = Append(role, r)
    /\ borrowed_books' = Append(borrowed_books, <<>>)
    /\ libraries' = [libraries EXCEPT ![l].members = Append(@, Len(member_id) + 1)]
    /\ last' = [op |-> "add_member", ret |-> TRUE, msg |-> "registered"]
    /\ UNCHANGED <<book_id, is_available, active_idx, removed>>

\* lib.remove_book(id)
RemoveBook(l, id) ==
    LET r == Library_remove_book(libraries[l].books, id) IN
    /\ libraries' = [libraries EXCEPT ![l].books = r.books]
    /\ removed' = IF r.ret THEN removed \cup {first_removable(libraries[l].books, id)}
                          ELSE removed
    /\ last' = [op |-> "remove_book", ret |-> r.ret, msg |-> r.msg]
    /\ UNCHANGED <<book_id, is_available, member_id, role, borrowed_books, active_idx>>

\* lib.borrow(member_id, book_id)
Borrow(l, mid, bid) ==
    LET r == Library_borrow(libraries[l], Heap, mid, bid) IN
    /\ is_available' = r.h.is_available
    /\ borrowed_books' = r.h.borrowed_books
    /\ last' = [op |-> "borrow", ret |-> r.ret, msg |-> r.msg]
    /\ UNCHANGED <<book_id, member_id, role, libraries, active_idx, removed>>

\* lib.return_book(member_id, book_id)
ReturnBook(l, mid, bid) ==
    LET r == Library_return_book(libraries[l], Heap, mid, bid) IN
    /\ is_available' = r.h.is_available
    /\ borrowed_books' = r.h.borrowed_books
    /\ last' = [op |-> "return_book", ret |-> r.ret, msg |-> r.msg]
    /\ UNCHANGED <<book_id, member_id, role, libraries, active_idx, removed>>

\* Mutant: the merge collects into self, which becomes the merged catalog too.
Merge_extends_self(l1, l2) ==
    LET merged == Library__add__(libraries[l1], libraries[l2]) IN
    /\ libraries' = Append([libraries EXCEPT ![l1] = merged], merged)
    /\ last' = [op |-> "merge", ret |-> TRUE, msg |-> "merged"]
    /\ UNCHANGED <<book_id, is_available, member_id, role, borrowed_books, active_idx, removed>>

\* Mutant: the merge copies the books, so the merged catalog holds new Book
\* objects with the ids and availabilities of the ones it kept.
Merge_deep_copy(l1, l2) ==
    LET merged == Library__add__(libraries[l1], libraries[l2])
        n      == Len(merged.books)
    IN  /\ book_id' = book_id \o [i \in 1..n |-> book_id[merged.books[i]]]
        /\ is_available' = is_available \o [i \in 1..n |-> is_available[merged.books[i]]]
        /\ libraries' = Append(libraries,
                               [books   |-> [i \in 1..n |-> Len(book_id) + i],
                                members |-> merged.members])
        /\ last' = [op |-> "merge", ret |-> TRUE, msg |-> "merged"]
        /\ UNCHANGED <<member_id, role, borrowed_books, active_idx, removed>>

\* merged = libraries[l1] + libraries[l2], kept as a new library.
Merge(l1, l2) ==
    /\ libraries' = Append(libraries, Library__add__(libraries[l1], libraries[l2]))
    /\ last' = [op |-> "merge", ret |-> TRUE, msg |-> "merged"]
    /\ UNCHANGED <<book_id, is_available, member_id, role, borrowed_books, active_idx, removed>>

Next ==
    \/ \E l \in Libs, id \in NewBookIds(NumBookIds) :
          Len(book_id) < MaxBooks /\ AddBook(l, id)
    \/ \E l \in Libs, id \in MemberIds :
          Len(member_id) < MaxMembers /\ AddMember(l, RoleOfId(id), id)
    \/ \E l \in Libs, id \in BookIds : RemoveBook(l, id)
    \/ \E l \in Libs, mid \in MemberIds, bid \in BookIds : Borrow(l, mid, bid)
    \/ \E l \in Libs, mid \in MemberIds, bid \in BookIds : ReturnBook(l, mid, bid)
    \/ \E l1 \in Libs, l2 \in Libs : Len(libraries) < MaxLibs /\ Merge(l1, l2)

Spec == Init /\ [][Next]_vars

\* ------------------------------------------------------------------ SpecCap
\* One catalog filled far enough for both borrowing caps to bind, and then
\* merged.  The caller adds books with ids 1, 2, 3, ..., registers student 1 and
\* faculty 2, and only then lends: a student asks for the lowest-numbered
\* available book, a faculty member for the highest-numbered one, either may ask
\* for a book that is out, and a member returns the book borrowed last.  Calls
\* go through any catalog.
AvailableBooks == {b \in 1..Len(book_id) : is_available[b]}

Preferred(m) ==
    IF role[m] = "Student"
    THEN {b \in AvailableBooks : \A c \in AvailableBooks : b <= c}
    ELSE {b \in AvailableBooks : \A c \in AvailableBooks : b >= c}

CapAddBook == Len(book_id) < NumCapBooks /\ AddBook(1, Len(book_id) + 1)

CapAddMember ==
    /\ Len(member_id) < 2
    /\ AddMember(1, RoleOfId(Len(member_id) + 1), Len(member_id) + 1)

CapMerge ==
    /\ Len(book_id) = NumCapBooks
    /\ Len(libraries) < MaxLibs
    /\ \E l \in Libs : Merge(1, l)

CapBorrow ==
    /\ Len(book_id) = NumCapBooks
    /\ \E l \in Libs, m \in 1..Len(member_id) :
          \E b \in Preferred(m) \cup ((1..Len(book_id)) \ AvailableBooks) :
              Borrow(l, member_id[m], book_id[b])

CapReturn ==
    \E l \in Libs, m \in 1..Len(member_id) :
        /\ borrowed_books[m] # <<>>
        /\ ReturnBook(l, member_id[m], book_id[borrowed_books[m][Len(borrowed_books[m])]])

NextCap == CapAddBook \/ CapAddMember \/ CapMerge \/ CapBorrow \/ CapReturn

SpecCap == Init /\ [][NextCap]_vars

\* ------------------------------------------------------------------ SpecCli
\* run_cli: the menu loop over the two seeded libraries.  Choices 1 and 7 and
\* the inputs that are not numbers only print, and are left out.

\* The state after seed_demo_data() and lines 252-253 of run_cli.
InitCli ==
    /\ book_id = <<101, 102, 201, 202>>
    /\ is_available = <<TRUE, TRUE, TRUE, TRUE>>
    /\ member_id = <<1, 2, 3, 4>>
    /\ role = <<"Student", "Faculty", "Student", "Faculty">>
    /\ borrowed_books = <<<<>>, <<>>, <<>>, <<>>>>
    /\ libraries = <<[books |-> <<1, 2>>, members |-> <<1, 2>>],
                     [books |-> <<3, 4>>, members |-> <<3, 4>>]>>
    /\ active_idx = 0
    /\ last = NoCall
    /\ removed = {}

\* The ids typed in: a book and a member of the first seeded library.
CliBookIds == {101}
CliMemberIds == {1}

\* The loop runs until choice 0 or an uncaught exception.
Running == last.op # "exit" /\ last.msg # "IndexError"

\* Python's lst[i] on a list of n items: the position (from 1) read, or None
\* for an IndexError.
list_index(n, i) ==
    IF 0 <= i /\ i < n THEN i + 1
    ELSE IF -n <= i /\ i < 0 THEN n + i + 1
    ELSE None

\* What a choice that only prints leaves behind.
Printed(op, msg) ==
    /\ last' = [op |-> op, ret |-> FALSE, msg |-> msg]
    /\ UNCHANGED <<book_id, is_available, member_id, role, borrowed_books, libraries,
                   active_idx, removed>>

\* choice 2: register a member with the role and id typed in.
Choice2(r, id) ==
    /\ Running
    /\ IF r \in Roles
       THEN Len(member_id) < NumCliMembers /\ AddMember(active_idx + 1, r, id)
       ELSE Printed("add_member", "unknown role")

\* choice 3: add a book, unless the active library finds one with the id.
Choice3(id) ==
    /\ Running
    /\ IF find_book(libraries[active_idx + 1].books, id) # None
       THEN Printed("add_book", "already exists")
       ELSE Len(book_id) < NumCliBooks /\ AddBook(active_idx + 1, id)

\* choice 4: remove a book from the active library.
Choice4(id) == Running /\ RemoveBook(active_idx + 1, id)

\* choice 5: borrow through the active library.
Choice5(mid, bid) == Running /\ Borrow(active_idx + 1, mid, bid)

\* choice 6: return through the active library.
Choice6(mid, bid) == Running /\ ReturnBook(active_idx + 1, mid, bid)

\* Mutant: the active index is set to the length of the list, one past its
\* last entry.
Choice8_past_the_end ==
    /\ Running
    /\ Len(libraries) < NumCliLibs
    /\ LET other == list_index(Len(libraries), 1 - active_idx) IN
       IF other = None
       THEN Printed("merge", "IndexError")
       ELSE /\ libraries' = Append(libraries,
                                   Library__add__(libraries[active_idx + 1], libraries[other]))
            /\ active_idx' = Len(libraries')
            /\ last' = [op |-> "merge", ret |-> TRUE, msg |-> "merged"]
            /\ UNCHANGED <<book_id, is_available, member_id, role, borrowed_books, removed>>

\* choice 8: merge the active library with libraries[1 - active_idx], append
\* the result and make it the active one.
Choice8 ==
    /\ Running
    /\ Len(libraries) < NumCliLibs
    /\ LET other == list_index(Len(libraries), 1 - active_idx) IN
       IF other = None
       THEN Printed("merge", "IndexError")
       ELSE /\ libraries' = Append(libraries,
                                   Library__add__(libraries[active_idx + 1], libraries[other]))
            /\ active_idx' = Len(libraries') - 1
            /\ last' = [op |-> "merge", ret |-> TRUE, msg |-> "merged"]
            /\ UNCHANGED <<book_id, is_available, member_id, role, borrowed_books, removed>>

\* choice 9: switch to the index typed in, if it is one of the list.
Choice9(new_idx) ==
    /\ Running
    /\ IF 0 <= new_idx /\ new_idx < Len(libraries)
       THEN /\ active_idx' = new_idx
            /\ last' = [op |-> "switch", ret |-> TRUE, msg |-> "now using"]
            /\ UNCHANGED <<book_id, is_available, member_id, role, borrowed_books,
                           libraries, removed>>
       ELSE Printed("switch", "out of range")

\* choice 0: leave the loop.
Choice0 ==
    /\ Running
    /\ last' = [op |-> "exit", ret |-> TRUE, msg |-> "goodbye"]
    /\ UNCHANGED <<book_id, is_available, member_id, role, borrowed_books, libraries,
                   active_idx, removed>>

NextCli ==
    \/ \E r \in Roles \cup {"other"}, id \in CliMemberIds : Choice2(r, id)
    \/ \E id \in CliBookIds : Choice3(id)
    \/ \E id \in CliBookIds : Choice4(id)
    \/ \E mid \in CliMemberIds, bid \in CliBookIds : Choice5(mid, bid)
    \/ \E mid \in CliMemberIds, bid \in CliBookIds : Choice6(mid, bid)
    \/ Choice8
    \/ \E new_idx \in -1..Len(libraries) : Choice9(new_idx)
    \/ Choice0

SpecCli == InitCli /\ [][NextCli]_vars

\* ----------------------------------------------------------------- SpecBase
\* The catalog of SpecCap with student 1 and a member of the base class Member,
\* which Library.add_member accepts as it accepts any Member:
\* lib.add_member(Member(n, 2)).
BaseAddMember ==
    /\ Len(member_id) < 2
    /\ AddMember(1, IF Len(member_id) = 0 THEN "Student" ELSE "Member", Len(member_id) + 1)

NextBase == CapAddBook \/ BaseAddMember \/ CapBorrow \/ CapReturn

SpecBase == Init /\ [][NextBase]_vars

\* ---------------------------------------------------------------- SpecMerge
\* Library.__add__ on book lists of every shape: the caller fills the two
\* catalogs, registering at most one member in each, and then merges two of
\* them (in either order, or one with itself).
MergeAddBook ==
    \E l \in Libs, id \in NewBookIds(NumMergeIds) :
        Len(libraries) = 2 /\ Len(book_id) < NumMergeBooks /\ AddBook(l, id)

MergeAddMember ==
    \E l \in Libs, id \in MemberIds :
        /\ Len(libraries) = 2
        /\ libraries[l].members = <<>>
        /\ AddMember(l, RoleOfId(id), id)

MergeMerge == \E l1 \in Libs, l2 \in Libs : Len(libraries) = 2 /\ Merge(l1, l2)

NextMerge == MergeAddBook \/ MergeAddMember \/ MergeMerge

SpecMerge == Init /\ [][NextMerge]_vars

\* =================================================================== claims
Range(s) == {s[i] : i \in 1..Len(s)}
Books == 1..Len(book_id)
Members == 1..Len(member_id)

\* The members whose borrowed_books holds book b.
Holders(b) == {m \in Members : b \in Range(borrowed_books[m])}

\* MAX_BORROW of a member's class.
MaxBorrow(r) == IF r = "Student" THEN StudentMember_MAX_BORROW ELSE FacultyMember_MAX_BORROW

\* C1: in every reachable state every Book is unavailable if and only if
\* exactly one Member's borrowed_books holds it, and available if and only if
\* no Member's does.
C1_UnavailableIffHeldByOne ==
    \A b \in Books :
        /\ ~is_available[b] <=> Cardinality(Holders(b)) = 1
        /\ is_available[b] <=> Holders(b) = {}

\* A member has just borrowed a book that a second member could have asked for
\* through the same catalog.
C1_Witness ==
    /\ last.op = "borrow" /\ last.ret
    /\ \E l \in Libs, b \in Books :
          /\ b \in Range(libraries[l].books)
          /\ ~is_available[b]
          /\ Cardinality(Range(libraries[l].members)) >= 2

\* C2: in every reachable state a Student holds at most 3 books and a Faculty
\* member at most 10, through whichever catalog the member borrows.
C2_WithinCap ==
    \A m \in Members : Len(borrowed_books[m]) <= MaxBorrow(role[m])

\* Both caps are reached, a merged catalog exists, and the last call was a
\* borrow refused for the limit.
C2_Witness ==
    /\ last.op = "borrow" /\ ~last.ret /\ last.msg = "reached limit"
    /\ Len(libraries) > 2
    /\ \E m \in Members : role[m] = "Student" /\ Len(borrowed_books[m]) = StudentMember_MAX_BORROW
    /\ \E m \in Members : role[m] = "Faculty" /\ Len(borrowed_books[m]) = FacultyMember_MAX_BORROW

\* C3: in every reachable state, for every member and book, member.borrow_book
\* returns False when the member is at its cap or the book is out, and a call
\* that returns False leaves the heap (every book's availability, every
\* member's borrowed_books) as it was.
C3_FailedBorrowChangesNothing ==
    \A m \in Members, b \in Books :
        LET r == borrow_book(Heap, m, b) IN
        /\ (Len(borrowed_books[m]) >= MaxBorrow(role[m]) \/ ~is_available[b]) => ~r.ret
        /\ ~r.ret => r.h = Heap

\* A member at its cap has just been refused while a book was available.
C3_Witness ==
    /\ last.op = "borrow" /\ ~last.ret /\ last.msg = "reached limit"
    /\ \E b \in Books : is_available[b]
    /\ \E b \in Books : ~is_available[b]

\* C4: remove_book(id) on a catalog in which a book with that id is held by a
\* member returns False and leaves the catalog's books as they were, also when
\* add_book has put several books with that id into the catalog.
C4_RemoveOfHeldIdFails ==
    [][\A l \in Libs, id \in BookIds :
          (/\ RemoveBook(l, id)
           /\ \E b \in Range(libraries[l].books) : book_id[b] = id /\ Holders(b) # {})
          => (~last'.ret /\ libraries'[l].books = libraries[l].books)]_vars

\* The positions of list c that hold the first occurrence of their id.
FirstPositions(c, ids) ==
    {i \in 1..Len(c) : \A j \in 1..(i - 1) : ids[c[j]] # ids[c[i]]}

\* List c with every item whose id occurred earlier dropped, order kept.
FirstOccurrences(c, ids) ==
    LET K == FirstPositions(c, ids) IN
    [n \in 1..Cardinality(K) |->
        c[CHOOSE i \in K : Cardinality({j \in K : j < i}) = n - 1]]

\* C5: a merge step adds one catalog, whose books are A.books then B.books with
\* every book whose id occurred earlier dropped (first occurrence kept, order
\* kept), and whose members are built the same way from A.members then B.members.
C5_MergeKeepsFirstOccurrences ==
    [][\A l1 \in Libs, l2 \in Libs :
          Merge(l1, l2) =>
            /\ Len(libraries') = Len(libraries) + 1
            /\ libraries'[Len(libraries')].books =
                  FirstOccurrences(libraries[l1].books \o libraries[l2].books, book_id)
            /\ libraries'[Len(libraries')].members =
                  FirstOccurrences(libraries[l1].members \o libraries[l2].members, member_id)]_vars

\* The ids of a list of books.
IdsOf(books) == [i \in 1..Len(books) |-> book_id[books[i]]]

\* Books [1,2] merged with books [2,3] gave [1,2,3] with the first catalog's
\* copy of 2, and of two members with the same id the first catalog's was kept.
C5_Witness ==
    /\ last.op = "merge"
    /\ Len(libraries) = 3
    /\ IdsOf(libraries[1].books) = <<1, 2>>
    /\ IdsOf(libraries[2].books) = <<2, 3>>
    /\ libraries[3].books = libraries[1].books \o <<libraries[2].books[2]>>
    /\ Len(libraries[1].members) = 1 /\ Len(libraries[2].members) = 1
    /\ member_id[libraries[1].members[1]] = member_id[libraries[2].members[1]]
    /\ libraries[3].members = libraries[1].members

\* C6: in every reachable state, a borrow that succeeds followed at once by
\* return_book with the same catalog, member id and book id succeeds and gives
\* back the heap from before the borrow.
C6_BorrowThenReturnRestores ==
    \A l \in Libs, mid \in MemberIds, bid \in BookIds :
        LET r1 == Library_borrow(libraries[l], Heap, mid, bid) IN
        r1.ret =>
            LET r2 == Library_return_book(libraries[l], r1.h, mid, bid) IN
            r2.ret /\ r2.h = Heap

\* C7: a Book goes from available to borrowed only in a successful borrow that
\* appends it to a member's borrowed_books, and from borrowed to available only
\* in a successful return_book that takes it out of its holder's borrowed_books.
C7_AvailabilityChangesOnlyByBorrowAndReturn ==
    [][\A b \in Books :
          /\ (is_available[b] /\ ~is_available'[b]) =>
                /\ last'.op = "borrow" /\ last'.ret
                /\ \E m \in Members : borrowed_books'[m] = Append(borrowed_books[m], b)
          /\ (~is_available[b] /\ is_available'[b]) =>
                /\ last'.op = "return_book" /\ last'.ret
                /\ \E m \in Holders(b) : borrowed_books'[m] = list_remove(borrowed_books[m], b)]_vars

\* A book has just been returned while another one is still out.
C7_Witness ==
    /\ last.op = "return_book" /\ last.ret
    /\ \E b \in Books : is_available[b]
    /\ \E b \in Books : ~is_available[b]

\* C8 as claimed: remove_book removes only an available Book, and the
\* availability of a removed Book never changes again.
C8_RemovedNeverBorrowed ==
    [][/\ \A b \in removed' \ removed : is_available[b]
       /\ \A b \in removed : is_available'[b] = is_available[b]]_vars

\* C8 as amended: remove_book removes only an available Book and takes it out
\* of the catalog's books; no Book comes back into a catalog that does not hold
\* it; and a borrow takes only a Book that the catalog it goes through holds.
\* So a removed Book is never borrowed again through the catalog it was
\* removed from.
C8_RemovedNeverBorrowedThere ==
    [][/\ \A b \in removed' \ removed :
             /\ is_available[b]
             /\ \A l \in Libs, id \in BookIds :
                   RemoveBook(l, id) => b \notin Range(libraries'[l].books)
       /\ libraries' # libraries =>
             \A l \in Libs, b \in Books :
                 b \notin Range(libraries[l].books) => b \notin Range(libraries'[l].books)
       /\ (last'.op = "borrow" /\ last'.ret) =>
             \A b \in Books :
                 (is_available[b] /\ ~is_available'[b]) =>
                     \A l \in Libs, mid \in MemberIds, bid \in BookIds :
                         Borrow(l, mid, bid) => b \in Range(libraries[l].books)]_vars

\* A removed Book has just been borrowed (through another catalog that holds it).
C8_Witness ==
    /\ last.op = "borrow" /\ last.ret
    /\ \E b \in removed : ~is_available[b]

\* C9 as claimed: every Book a member of a catalog has borrowed is in that
\* catalog's books.
C9_BorrowedBooksInSameCatalog ==
    \A l \in Libs : \A m \in Range(libraries[l].members) :
        \A b \in Range(borrowed_books[m]) : b \in Range(libraries[l].books)

\* C9 as amended: every Book a member has borrowed is in the books of some
\* catalog that has the member.
C9_BorrowedBooksInSomeCatalogOfMember ==
    \A m \in Members : \A b \in Range(borrowed_books[m]) :
        \E l \in Libs : m \in Range(libraries[l].members) /\ b \in Range(libraries[l].books)

\* After a merge, a member of a catalog holds a book that this catalog does
\* not have.
C9_Witness ==
    /\ Len(libraries) > 2
    /\ \E l \in Libs : \E m \in Range(libraries[l].members) :
          \E b \in Range(borrowed_books[m]) : b \notin Range(libraries[l].books)

\* C10: in every reachable state, member.return_book(id) returns True exactly
\* when the member's own borrowed_books has a book with that id; a call that
\* returns False changes nothing; no call changes the availability of a book
\* the member does not hold; and Library.return_book with a member id the
\* catalog does not have returns False and changes nothing.
C10_ReturnOnlyOwnBooks ==
    /\ \A m \in Members, id \in BookIds :
          LET r == Member_return_book(Heap, m, id) IN
          /\ r.ret <=> \E b \in Range(borrowed_books[m]) : book_id[b] = id
          /\ ~r.ret => r.h = Heap
          /\ \A b \in Books :
                b \notin Range(borrowed_books[m]) => r.h.is_available[b] = is_available[b]
    /\ \A l \in Libs, mid \in MemberIds, bid \in BookIds :
          (\A m \in Range(libraries[l].members) : member_id[m] # mid) =>
              LET r == Library_return_book(libraries[l], Heap, mid, bid) IN
              ~r.ret /\ r.h = Heap

\* A member has just been refused the return of a book it does not hold, while
\* the other member of its catalog holds a book of every id: the book asked for
\* is held by that other member.
C10_Witness ==
    /\ last.op = "return_book" /\ ~last.ret /\ last.msg = "does not have"
    /\ \E l \in Libs : \E m1 \in Range(libraries[l].members), m2 \in Range(libraries[l].members) :
          /\ member_id[m1] # member_id[m2]
          /\ borrowed_books[m2] = <<>>
          /\ \A id \in BookIds : \E b \in Range(borrowed_books[m1]) : book_id[b] = id

\* C11: in every reachable state and for every catalog, member id and book id:
\* find_book and get_member_by_id return None for an id that no entry of the
\* catalog has; borrow returns False and changes nothing when either id is
\* absent from the catalog the call is made on; a borrow that succeeds takes a
\* book of that catalog for a member of that catalog; and every call returns
\* a boolean with a well-formed heap (no fault).
C11_BorrowNeedsBothInCatalog ==
    \A l \in Libs, mid \in MemberIds, bid \in BookIds :
        LET lib      == libraries[l]
            noMember == \A m \in Range(lib.members) : member_id[m] # mid
            noBook   == \A b \in Range(lib.books) : book_id[b] # bid
            r        == Library_borrow(lib, Heap, mid, bid)
        IN  /\ noMember => get_member_by_id(lib.members, mid) = None
            /\ noBook => find_book(lib.books, bid) = None
            /\ (noMember \/ noBook) => (~r.ret /\ r.h = Heap)
            /\ r.ret \in BOOLEAN
            /\ DOMAIN r.h.is_available = Books /\ DOMAIN r.h.borrowed_books = Members
            /\ r.ret =>
                  \E m \in Range(lib.members), b \in Range(lib.books) :
                      /\ member_id[m] = mid /\ book_id[b] = bid
                      /\ r.h.borrowed_books[m] = Append(borrowed_books[m], b)

\* A borrow has just been refused for a book id its catalog does not have,
\* while every book id is on some catalog's shelf, available, and that
\* catalog has no member at all.
C11_Witness ==
    /\ last.op = "borrow" /\ ~last.ret /\ last.msg = "no book"
    /\ \A id \in BookIds :
          \E l \in Libs : \E b \in Range(libraries[l].books) :
              book_id[b] = id /\ is_available[b] /\ libraries[l].members = <<>>

\* No two positions of list c hold items with the same id.
UniqueIds(c, ids) == \A i \in 1..Len(c), j \in 1..Len(c) : ids[c[i]] = ids[c[j]] => i = j

\* C12: in every reachable state, in every catalog (one grown by add_book and
\* add_member, or one produced by a merge), no two entries of books have the
\* same id and no two entries of members have the same id.
C12_IdsUniqueInCatalog ==
    \A l \in Libs :
        /\ UniqueIds(libraries[l].books, book_id)
        /\ UniqueIds(libraries[l].members, member_id)

\* C13: a merge constructs no Book and no Member and writes none: every entry
\* of the merged catalog's books and members is an instance that one of the
\* two source catalogs holds.  Availability and borrowed_books are fields of
\* the instance, so a borrow or return through one catalog is what every
\* other catalog holding that instance observes.
C13_MergeSharesInstances ==
    [][last'.op = "merge" =>
          /\ book_id' = book_id /\ is_available' = is_available
          /\ member_id' = member_id /\ role' = role /\ borrowed_books' = borrowed_books
          /\ Len(libraries') = Len(libraries) + 1
          /\ \E l1 \in Libs, l2 \in Libs :
                LET new == libraries'[Len(libraries')] IN
                /\ Range(new.books) \subseteq
                      Range(libraries[l1].books) \cup Range(libraries[l2].books)
                /\ Range(new.members) \subseteq
                      Range(libraries[l1].members) \cup Range(libraries[l2].members)]_vars

\* A member of one source catalog has just borrowed a book of the other source
\* catalog, which only the merged catalog allows: the book's source catalog
\* finds that book under its id and sees it out, and the member's source
\* catalog finds the member holding it.
C13_Witness ==
    /\ last.op = "borrow" /\ last.ret
    /\ Len(libraries) = 3
    /\ \E k1 \in {1, 2}, k2 \in {1, 2} :
          \E m \in Range(libraries[k1].members), b \in Range(libraries[k2].books) :
              /\ k1 # k2
              /\ m \notin Range(libraries[k2].members)
              /\ b \notin Range(libraries[k1].books)
              /\ m \in Range(libraries[3].members) /\ b \in Range(libraries[3].books)
              /\ find_book(libraries[k2].books, book_id[b]) = b
              /\ ~is_available[b]
              /\ get_member_by_id(libraries[k1].members, member_id[m]) = m
              /\ borrowed_books[m] = <<b>>
              /\ \A c \in Books \ {b} : is_available[c]

\* The positions of books that hold a Book with the id.
PositionsWithId(books, id) == {i \in 1..Len(books) : book_id[books[i]] = id}

\* books without its position p.
WithoutPosition(books, p) == SubSeq(books, 1, p - 1) \o SubSeq(books, p + 1, Len(books))

\* C14: in every reachable state, for every catalog and id, remove_book(id)
\* returns True exactly when the first Book of the catalog's books with that
\* id is available, and then leaves the books without that first match, in
\* order; when no Book has the id or the first match is borrowed it returns
\* False and leaves the books as they are.
C14_RemovesFirstMatchIfAvailable ==
    \A l \in Libs, id \in BookIds :
        LET books == libraries[l].books
            P     == PositionsWithId(books, id)
            r     == Library_remove_book(books, id)
        IN  IF P = {}
            THEN ~r.ret /\ r.books = books
            ELSE LET p == CHOOSE i \in P : \A j \in P : i <= j IN
                 IF is_available[books[p]]
                 THEN r.ret /\ r.books = WithoutPosition(books, p)
                 ELSE ~r.ret /\ r.books = books

\* Book b is in books behind an earlier entry with the same id.
ShadowedIn(books, b) ==
    \E i \in 1..Len(books), j \in 1..Len(books) :
        i < j /\ books[j] = b /\ book_id[books[i]] = book_id[b]

\* C15 as claimed: a Book that stands in a catalog's books behind an earlier
\* entry with the same id stays there, behind such an entry, for ever, and no
\* borrow on that catalog takes it.
C15_SecondEntryStaysUnreachable ==
    [][\A l \in Libs, b \in Books :
          ShadowedIn(libraries[l].books, b) =>
              /\ ShadowedIn(libraries'[l].books, b)
              /\ \A mid \in MemberIds, bid \in BookIds :
                    Borrow(l, mid, bid) => is_available'[b] = is_available[b]]_vars

\* C15 as amended: while a Book stands in a catalog's books behind an earlier
\* entry with the same id, find_book does not return it and no borrow on that
\* catalog takes it; it stays in the books, behind such an entry, until a
\* successful remove_book on that catalog with its id.
C15_SecondEntryUnreachableUntilRemove ==
    [][\A l \in Libs, b \in Books :
          ShadowedIn(libraries[l].books, b) =>
              /\ find_book(libraries[l].books, book_id[b]) # b
              /\ \A mid \in MemberIds, bid \in BookIds :
                    Borrow(l, mid, bid) => is_available'[b] = is_available[b]
              /\ ~ShadowedIn(libraries'[l].books, b) =>
                    /\ last'.op = "remove_book" /\ last'.ret
                    /\ RemoveBook(l, book_id[b])]_vars

\* A catalog holds two Books with one id; a borrow has just taken the first,
\* and the second is still on the shelf.
C15_Witness ==
    /\ last.op = "borrow" /\ last.ret
    /\ \E l \in Libs, b \in Books :
          /\ ShadowedIn(libraries[l].books, b)
          /\ is_available[b]
          /\ \E m \in Range(libraries[l].members) :
                borrowed_books[m] = <<libraries[l].books[1]>>
          /\ book_id[libraries[l].books[1]] = book_id[b]

\* C16: in every reachable state, for every member of the base class and every
\* Book, borrow_book returns True exactly when the Book is available, however
\* many books the member holds; a True result marks the Book as out and
\* appends it at the end of the member's borrowed_books, nothing else changes,
\* and a False result changes nothing.
C16_BaseMemberBorrowsIffAvailable ==
    \A m \in Members, b \in Books :
        role[m] = "Member" =>
            LET r == borrow_book(Heap, m, b) IN
            /\ r.ret <=> is_available[b]
            /\ r.ret =>
                  /\ r.h.is_available = [is_available EXCEPT ![b] = FALSE]
                  /\ r.h.borrowed_books = [borrowed_books EXCEPT ![m] = Append(@, b)]
            /\ ~r.ret => r.h = Heap

\* A base member holding more books than any cap allows has just borrowed
\* one more, while the student holds books too and a book is still available.
C16_Witness ==
    /\ last.op = "borrow" /\ last.ret
    /\ \E m \in Members :
          role[m] = "Member" /\ Len(borrowed_books[m]) > FacultyMember_MAX_BORROW + 1
    /\ \E m \in Members : role[m] = "Student" /\ borrowed_books[m] # <<>>
    /\ \E b \in Books : is_available[b]

\* C17: whenever choice 8 merges, the second operand libraries[1 - active_idx]
\* is another entry of the list than the active one, libraries[active_idx].
C17_MergeWithAnotherLibrary ==
    [][Choice8 => list_index(Len(libraries), 1 - active_idx) # active_idx + 1]_vars

\* C18: the active index is always an index of the list; and every choice 8
\* appends exactly one catalog, the merge of the active library with
\* libraries[1 - active_idx], leaves the entries before it as and where they
\* were, and makes the new last entry the active one.
C18_MergeAppendsAndActivates ==
    /\ [](0 <= active_idx /\ active_idx < Len(libraries))
    /\ [][Choice8 =>
            /\ Len(libraries') = Len(libraries) + 1
            /\ SubSeq(libraries', 1, Len(libraries)) = libraries
            /\ libraries'[Len(libraries')] =
                  Library__add__(libraries[active_idx + 1],
                                 libraries[list_index(Len(libraries), 1 - active_idx)])
            /\ active_idx' = Len(libraries') - 1]_vars

\* After a merge and a switch back to the second seeded library, a second merge
\* has just made the fourth entry the active one: it starts with the second
\* library's books.
C18_Witness ==
    /\ last.op = "merge"
    /\ Len(libraries) = 4 /\ active_idx = 3
    /\ libraries[2].books # <<>>
    /\ libraries[4].books # libraries[3].books
    /\ Head(libraries[4].books) = Head(libraries[2].books)

\* C19: a merge leaves every catalog that existed, its two sources included,
\* with the books and members it had, and changes no Book's availability and
\* no Member's borrowed_books; and add_book, add_member and remove_book on one
\* catalog leave the books and members of every other catalog as they were,
\* so that a merged catalog and its sources grow and shrink apart.
C19_MergeLeavesSourcesAlone ==
    [][/\ last'.op = "merge" =>
             /\ SubSeq(libraries', 1, Len(libraries)) = libraries
             /\ is_available' = is_available /\ borrowed_books' = borrowed_books
             /\ book_id' = book_id /\ member_id' = member_id /\ role' = role
       /\ last'.op \in {"add_book", "add_member", "remove_book"} =>
             \A l \in Libs :
                 (\/ \E id \in BookIds : AddBook(l, id) \/ RemoveBook(l, id)
                  \/ \E id \in MemberIds : AddMember(l, RoleOfId(id), id))
                 => \A k \in Libs \ {l} : libraries'[k] = libraries[k]]_vars

\* Two catalogs with a book each were merged, and then remove_book took one
\* of the books out of the merged catalog: its source still has it, and the
\* merged catalog still has the other source's book.
C19_Witness ==
    /\ last.op = "remove_book" /\ last.ret
    /\ Len(libraries) = 3
    /\ \E k1 \in {1, 2}, k2 \in {1, 2} :
          \E b \in Range(libraries[k1].books), c \in Range(libraries[k2].books) :
              /\ k1 # k2
              /\ b \in removed /\ b \notin Range(libraries[3].books)
              /\ c \in Range(libraries[3].books)

====
